---- MODULE Spec2Model ----
(***************************************************************************)
(* Self-Healing agent: the per-module pipeline of SelfHealingAgent         *)
(* (CrossPlatform/agent.py) and the scan/fix coordinator of the web        *)
(* dashboard (CrossPlatform/web/dashboard.py).                             *)
(*                                                                         *)
(*   Spec       the dashboard process: request handlers start_scan and     *)
(*              fix_issue, the background threads run_agent_scan and       *)
(*              run_fix, and the globals they share.                       *)
(*   SpecAgent  one command-line run of the agent (main -> run ->          *)
(*              run_module), one detector/remediator call per step.        *)
(*   SpecRemediate  one run_remediation call of one of the four            *)
(*              remediators, on an issue list of its domain.               *)
(***************************************************************************)
EXTENDS Integers, Sequences, FiniteSets, TLC

(* ---- bounds of the model ---- *)
\* longest module list a request or command line carries
MaxModules == 2
\* number of sub-probes of a detector that can each add one issue
MaxIssues == 2
\* scans accepted during one behaviour of the dashboard
MaxScans == 2
\* fixes accepted during one behaviour of the dashboard
MaxFixes == 1
\* fix threads that can be alive at once when fixes are studied on their own
MaxConcurrentFixes == 2
\* longest issue list handed to a remediator on its own
MaxTexts == 3

(* ---- values ---- *)
\* Python's None
None == [null |-> TRUE]

\* the module names with a branch in run_module
Registered == {"network", "disk", "service", "printer"}

\* module names a requester sends: two registered ones (the list-resetting
\* network detector and the accumulating disk detector) and one without a branch
ModuleNames == {"network", "disk", "security"}

\* _get_default_config()['enabled_modules']
DefaultEnabled == {"network", "disk", "service", "printer"}

\* the configurations a process runs under: no config file (defaults), or a
\* config file that disables disk and enables a module without a branch
EnabledChoices == {DefaultEnabled, {"network", "security"}}

\* the non-empty module lists of at most MaxModules names
ModuleLists == UNION {[1..n -> ModuleNames] : n \in 1..MaxModules}

\* the order in which the console offers the modules of a scan request
ConsoleOrder(module) ==
    CASE module = "network" -> 1 [] module = "disk" -> 2 [] OTHER -> 3

\* the module lists a scan request carries: a selection of at most MaxModules
\* of the offered modules, in the order the console lists them
ScanModuleLists ==
    {l \in ModuleLists :
        \A i, j \in 1..Len(l) : i < j => ConsoleOrder(l[i]) < ConsoleOrder(l[j])}

\* what the probes of one run_detection call append to self.issues: n issue
\* texts, the k-th of them standing for the text of the k-th issue found
Findings == {[k \in 1..n |-> k] : n \in 0..MaxIssues}

\* outcome of one detector call: it raises, or its probes find `found`
DetectOutcomes == {[raises |-> TRUE, found |-> <<>>]}
                     \cup {[raises |-> FALSE, found |-> f] : f \in Findings}

\* outcome of one run_remediation call: it raises, or returns with `success`
RemediateOutcomes == {[raises |-> TRUE, success |-> FALSE],
                      [raises |-> FALSE, success |-> TRUE],
                      [raises |-> FALSE, success |-> FALSE]}

(* ---- detectors ---- *)
\* run_detection of network, service and printer starts with self.issues = [];
\* DiskDetector.run_detection does not
ResetsIssues(module) == module \in {"network", "service", "printer"}

\* self.issues after a run_detection call whose probes found `found`
AccumulatedIssues(module, issues, found) ==
    IF ResetsIssues(module) THEN found ELSE issues \o found

\* the dict run_detection returns
DetectionResult(issues) ==
    [has_issues |-> Len(issues) > 0, issues |-> issues, issue_count |-> Len(issues)]

\* the dict run_remediation returns
RemediationResult(success) == [success |-> success]

\* time.sleep before verification, in seconds
SettleDelay(module) == IF module = "disk" THEN 2 ELSE 3

(* ---- run_module: one pipeline ---- *)
\* the result dict run_module starts from
NewResult(module) ==
    [module |-> module, detection |-> None, remediation |-> None,
     verification |-> None, status |-> "NOT_RUN", error |-> None]

\* a pipeline: control point, result dict, the detector's self.issues list,
\* and the log of the calls made so far (detect, remediate, settle), each with
\* whether it raised and what it was given or returned
NewPipeline(module) ==
    [pc |-> "start", result |-> NewResult(module), issues |-> <<>>, calls |-> <<>>]

\* str(e) of the exception a failing call raises
ExceptionMessage(op) ==
    IF op = "remediate" THEN "remediation failed" ELSE "detection failed"

\* the log entry of one run_detection call on a detector whose self.issues is
\* `issues`: what its probes found and the dict it returned, as it was then
DetectCall(module, issues, o) ==
    [op |-> "detect", raised |-> o.raises, found |-> o.found,
     returned |-> IF o.raises THEN None
                  ELSE DetectionResult(AccumulatedIssues(module, issues, o.found))]

\* mutant: the except clause records the status but the pipeline goes on
PipelineErrorContinues(p, call) ==
    [p EXCEPT !.calls = Append(@, call),
              !.result = [@ EXCEPT !.status = "ERROR"]]

\* the call raised and the except clause of run_module is entered: its first
\* assignment, result['status'] = 'ERROR'
PipelineError(p, call) ==
    [p EXCEPT !.pc = "except",
              !.calls = Append(@, call),
              !.result = [@ EXCEPT !.status = "ERROR"]]

\* mutant: the except clause records the error and re-raises, so the exception
\* leaves run_module and run()
ErrorTextStepReraises(p) ==
    [p EXCEPT !.pc = "raised",
              !.result = [@ EXCEPT !.error =
                             [message |-> ExceptionMessage(p.calls[Len(p.calls)].op)]]]

\* the second assignment of the except clause, result['error'] = str(e), e
\* being the exception of the last call
ErrorTextStep(p) ==
    [p EXCEPT !.pc = "done",
              !.result = [@ EXCEPT !.error =
                             [message |-> ExceptionMessage(p.calls[Len(p.calls)].op)]]]

\* mutant: a name without a branch is reported as a clean detection
NotImplementedStepNoIssues(p) ==
    [p EXCEPT !.pc = "done",
              !.result = [@ EXCEPT !.detection = DetectionResult(<<>>),
                                   !.status = "NO_ISSUES"]]

\* the else branch: no detector for this name
NotImplementedStep(p) ==
    [p EXCEPT !.pc = "done", !.result = [@ EXCEPT !.status = "NOT_IMPLEMENTED"]]

\* mutant: issues lead to remediation also in test-only mode
DetectStepIgnoresTestOnly(p, test_only, o) ==
    LET call == DetectCall(p.result.module, p.issues, o)
        acc == AccumulatedIssues(p.result.module, p.issues, o.found)
        det == DetectionResult(acc)
    IN  IF o.raises THEN PipelineError(p, call)
        ELSE [p EXCEPT !.pc = IF det.has_issues THEN "detected" ELSE "done",
                       !.issues = acc,
                       !.calls = Append(@, call),
                       !.result = [@ EXCEPT !.detection = det,
                                            !.status = IF det.has_issues THEN "NOT_RUN"
                                                       ELSE "NO_ISSUES"]]

\* detector = Detector(); detection_result = detector.run_detection() and the
\* branch on has_issues and test_only
DetectStep(p, test_only, o) ==
    LET call == DetectCall(p.result.module, p.issues, o)
        acc == AccumulatedIssues(p.result.module, p.issues, o.found)
        det == DetectionResult(acc)
        status == IF det.has_issues
                  THEN (IF ~test_only THEN "NOT_RUN" ELSE "TEST_ONLY")
                  ELSE "NO_ISSUES"
    IN  IF o.raises THEN PipelineError(p, call)
        ELSE [p EXCEPT !.pc = IF status = "NOT_RUN" THEN "detected" ELSE "done",
                       !.issues = acc,
                       !.calls = Append(@, call),
                       !.result = [@ EXCEPT !.detection = det, !.status = status]]

\* mutant: the remediation result is not stored in the result dict
RemediateStepDropsResult(p, o) ==
    LET call == [op |-> "remediate", raised |-> o.raises,
                 issues |-> p.result.detection.issues]
    IN  IF o.raises THEN PipelineError(p, call)
        ELSE [p EXCEPT !.pc = "remediated", !.calls = Append(@, call)]

\* remediator.run_remediation(detection_result['issues'])
RemediateStep(p, o) ==
    LET call == [op |-> "remediate", raised |-> o.raises,
                 issues |-> p.result.detection.issues]
    IN  IF o.raises THEN PipelineError(p, call)
        ELSE [p EXCEPT !.pc = "remediated",
                       !.calls = Append(@, call),
                       !.result = [@ EXCEPT !.remediation = RemediationResult(o.success)]]

\* time.sleep(delay)
SettleStep(p) ==
    [p EXCEPT !.pc = "settled",
              !.calls = Append(@, [op |-> "settle", raised |-> FALSE,
                                   seconds |-> SettleDelay(p.result.module)])]

\* mutant: the final status is taken from the remediation's success flag
VerifyStepByRemediation(p, o) ==
    LET call == DetectCall(p.result.module, p.issues, o)
        acc == AccumulatedIssues(p.result.module, p.issues, o.found)
    IN  IF o.raises THEN PipelineError(p, call)
        ELSE [p EXCEPT !.pc = "done",
                       !.issues = acc,
                       !.calls = Append(@, call),
                       !.result = [@ EXCEPT !.verification = DetectionResult(acc),
                                            !.status = IF p.result.remediation.success
                                                       THEN "REMEDIATION_SUCCESS"
                                                       ELSE "REMEDIATION_PARTIAL"]]

\* verification_result = detector.run_detection() on the same detector; the
\* issues list of the first result is self.issues itself unless the detector
\* rebinds self.issues at the start of the call
VerifyStep(p, o) ==
    LET call == DetectCall(p.result.module, p.issues, o)
        acc == AccumulatedIssues(p.result.module, p.issues, o.found)
        ver == DetectionResult(acc)
        aliased == IF ResetsIssues(p.result.module)
                   THEN p.result.detection
                   ELSE [p.result.detection EXCEPT !.issues = acc]
    IN  IF o.raises THEN PipelineError(p, call)
        ELSE [p EXCEPT !.pc = "done",
                       !.issues = acc,
                       !.calls = Append(@, call),
                       !.result = [@ EXCEPT !.detection = aliased,
                                            !.verification = ver,
                                            !.status = IF ver.has_issues
                                                       THEN "REMEDIATION_PARTIAL"
                                                       ELSE "REMEDIATION_SUCCESS"]]

\* the pipelines one step of run_module can lead to
PipelineSucc(p, test_only) ==
    CASE p.pc = "start" ->
           IF p.result.module \in Registered
           THEN {DetectStep(p, test_only, o) : o \in DetectOutcomes}
           ELSE {NotImplementedStep(p)}
      [] p.pc = "detected" -> {RemediateStep(p, o) : o \in RemediateOutcomes}
      [] p.pc = "remediated" -> {SettleStep(p)}
      [] p.pc = "settled" -> {VerifyStep(p, o) : o \in DetectOutcomes}
      [] p.pc = "except" -> {ErrorTextStep(p)}
      [] OTHER -> {}

\* the pipelines run_module can return from, started at p
RECURSIVE RunModule(_, _)
RunModule(p, test_only) ==
    IF p.pc = "done" THEN {p}
    ELSE UNION {RunModule(q, test_only) : q \in PipelineSucc(p, test_only)}

(* ---- SelfHealingAgent.run: the loop over the requested modules ---- *)
\* the final pipelines of run(), one per requested module that is enabled in
\* the configuration, from the i-th requested module on
RECURSIVE AgentRun(_, _, _, _)
AgentRun(requested, enabled, test_only, i) ==
    IF i > Len(requested) THEN {<<>>}
    ELSE IF requested[i] \notin enabled THEN AgentRun(requested, enabled, test_only, i + 1)
    ELSE {<<q>> \o rest : q \in RunModule(NewPipeline(requested[i]), test_only),
                          rest \in AgentRun(requested, enabled, test_only, i + 1)}

\* self.results as run() returns it
ResultsOf(pipelines) == [k \in 1..Len(pipelines) |-> pipelines[k].result]

\* sys.exit(1 if has_errors else 0) of main
ExitCode(results) ==
    IF \E k \in 1..Len(results) : results[k].status = "ERROR" THEN 1 ELSE 0

VARIABLES
    agent,                  \* the command-line agent: SelfHealingAgent and its run() loop
    enabled_modules,        \* config['enabled_modules'] of the process
    is_admin,               \* platform_detector.is_admin() of the process
    scan_in_progress,       \* dashboard global
    current_scan_results,   \* dashboard global: which snapshot object it is bound to
    reports,                \* the 'results' lists of the snapshot objects, by scan
    scans,                  \* the run_agent_scan threads
    fixes,                  \* the run_fix threads
    response,               \* the HTTP response the last step sent, if it was a
                            \* request, with the parameters of an accepted fix
    remediator              \* a remediator instance and its run_remediation call

vars == <<agent, enabled_modules, is_admin, scan_in_progress, current_scan_results,
          reports, scans, fixes, response, remediator>>

dashboard_vars == <<is_admin, scan_in_progress, current_scan_results, reports, scans,
                    fixes, response>>

(* ---- the command-line agent, step by step ---- *)
NoAgent ==
    [pc |-> "none", test_only |-> FALSE, requested |-> <<>>, i |-> 1,
     results |-> <<>>, p |-> None, exit_code |-> 0]

\* main(): parse the arguments and construct the agent
NewAgent(test_only, modules) ==
    [pc |-> "loop", test_only |-> test_only, requested |-> modules, i |-> 1,
     results |-> <<>>, p |-> None, exit_code |-> 0]

\* run(): a requested module that is not in enabled_modules is passed over
AgentSkipDisabled ==
    /\ agent.pc = "loop"
    /\ agent.i <= Len(agent.requested)
    /\ agent.requested[agent.i] \notin enabled_modules
    /\ agent' = [agent EXCEPT !.i = @ + 1]
    /\ UNCHANGED <<enabled_modules, dashboard_vars, remediator>>

\* run_module(module_name): the result dict is created with status NOT_RUN
AgentBeginModule ==
    /\ agent.pc = "loop"
    /\ agent.i <= Len(agent.requested)
    /\ agent.requested[agent.i] \in enabled_modules
    /\ agent' = [agent EXCEPT !.pc = "module",
                              !.p = NewPipeline(agent.requested[agent.i])]
    /\ UNCHANGED <<enabled_modules, dashboard_vars, remediator>>

AgentNotImplemented ==
    /\ agent.pc = "module"
    /\ agent.p.pc = "start"
    /\ agent.p.result.module \notin Registered
    /\ agent' = [agent EXCEPT !.p = NotImplementedStep(@)]
    /\ UNCHANGED <<enabled_modules, dashboard_vars, remediator>>

AgentDetect ==
    /\ agent.pc = "module"
    /\ agent.p.pc = "start"
    /\ agent.p.result.module \in Registered
    /\ \E o \in DetectOutcomes :
          agent' = [agent EXCEPT !.p = DetectStep(@, agent.test_only, o)]
    /\ UNCHANGED <<enabled_modules, dashboard_vars, remediator>>

AgentRemediate ==
    /\ agent.pc = "module"
    /\ agent.p.pc = "detected"
    /\ \E o \in RemediateOutcomes : agent' = [agent EXCEPT !.p = RemediateStep(@, o)]
    /\ UNCHANGED <<enabled_modules, dashboard_vars, remediator>>

AgentSettle ==
    /\ agent.pc = "module"
    /\ agent.p.pc = "remediated"
    /\ agent' = [agent EXCEPT !.p = SettleStep(@)]
    /\ UNCHANGED <<enabled_modules, dashboard_vars, remediator>>

AgentVerify ==
    /\ agent.pc = "module"
    /\ agent.p.pc = "settled"
    /\ \E o \in DetectOutcomes : agent' = [agent EXCEPT !.p = VerifyStep(@, o)]
    /\ UNCHANGED <<enabled_modules, dashboard_vars, remediator>>

\* run_module, the except clause: result['error'] = str(e)
AgentErrorText ==
    /\ agent.pc = "module"
    /\ agent.p.pc = "except"
    /\ agent' = [agent EXCEPT !.p = ErrorTextStep(@)]
    /\ UNCHANGED <<enabled_modules, dashboard_vars, remediator>>

\* mutant: the result is put at the front of self.results
AgentCollectPrepends ==
    /\ agent.pc = "module"
    /\ agent.p.pc = "done"
    /\ agent' = [agent EXCEPT !.pc = "loop", !.i = @ + 1, !.p = None,
                              !.results = <<agent.p.result>> \o @]
    /\ UNCHANGED <<enabled_modules, dashboard_vars, remediator>>

\* run(): self.results.append(result), on to the next requested module
AgentCollect ==
    /\ agent.pc = "module"
    /\ agent.p.pc = "done"
    /\ agent' = [agent EXCEPT !.pc = "loop", !.i = @ + 1, !.p = None,
                              !.results = Append(@, agent.p.result)]
    /\ UNCHANGED <<enabled_modules, dashboard_vars, remediator>>

\* run() returns self.results and main exits
AgentReturn ==
    /\ agent.pc = "loop"
    /\ agent.i > Len(agent.requested)
    /\ agent' = [agent EXCEPT !.pc = "exited", !.exit_code = ExitCode(agent.results)]
    /\ UNCHANGED <<enabled_modules, dashboard_vars, remediator>>

(* ---- the dashboard: globals, threads and the objects they share ---- *)
ScanIds == 1..MaxScans
\* the fix threads the process has room for
FixIds == DOMAIN fixes

\* current_scan_results = None
NoResults == [kind |-> "none", scan |-> 0]

\* a thread slot not started; a finished thread holds no data either
IdleScan == [pc |-> "idle", modules |-> <<>>, before |-> NoResults]
DoneScan == [IdleScan EXCEPT !.pc = "done"]

IdleFix == [pc |-> "idle", module |-> "", issue |-> 0, scan |-> 0, k |-> 0,
            called |-> <<>>, result |-> None, status |-> ""]
DoneFix == [IdleFix EXCEPT !.pc = "done"]

\* n fix threads, none started
FixSlots(n) == [f \in 1..n |-> IdleFix]

NoResponse == [op |-> "none", code |-> 0]

\* the scan a running fix thread's module_result belongs to
HoldsReport(fx, s) == \E f \in DOMAIN fx : fx[f].pc \notin {"idle", "done"} /\ fx[f].scan = s

\* the list agent.run() returned to scan thread s lives while the `results`
\* local of that thread, current_scan_results or the module_result of a running
\* fix thread refers to it
Collect(rep, cur, sc, fx) ==
    [s \in ScanIds |->
        IF \/ sc[s].pc = "published"
           \/ cur.kind = "report" /\ cur.scan = s
           \/ HoldsReport(fx, s)
        THEN rep[s] ELSE <<>>]

\* the 'results' list that current_scan_results.get('results', []) yields
CurrentResults ==
    IF current_scan_results.kind = "report" THEN reports[current_scan_results.scan]
    ELSE <<>>

(* ---- start_scan and run_agent_scan ---- *)
\* mutant: start_scan without its guard
ScanRejectedNever(in_progress) == FALSE

\* the guard of start_scan
ScanRejected(in_progress) == in_progress

\* POST /api/scan with a JSON body whose 'modules' is `modules`
StartScan ==
    \E modules \in ScanModuleLists :
       IF ScanRejected(scan_in_progress)
       THEN /\ response' = [op |-> "scan", code |-> 400]
            /\ UNCHANGED <<agent, remediator, enabled_modules, is_admin, scan_in_progress,
                           current_scan_results, reports, scans, fixes>>
       ELSE /\ \E s \in ScanIds :
                  /\ scans[s].pc = "idle"
                  /\ \A t \in ScanIds : t < s => scans[t].pc /= "idle"
                  /\ scans' = [scans EXCEPT ![s] =
                                 [IdleScan EXCEPT !.pc = "launched",
                                                  !.modules = modules,
                                                  !.before = current_scan_results]]
            /\ response' = [op |-> "scan", code |-> 200, modules |-> modules]
            /\ UNCHANGED <<agent, remediator, enabled_modules, is_admin, scan_in_progress,
                           current_scan_results, reports, fixes>>

\* run_agent_scan, first statement of the try block
ScanBegin(s) ==
    /\ scans[s].pc = "launched"
    /\ scans' = [scans EXCEPT ![s].pc = "running"]
    /\ scan_in_progress' = TRUE
    /\ response' = NoResponse
    /\ UNCHANGED <<agent, remediator, enabled_modules, is_admin, current_scan_results, reports, fixes>>

\* mutant: the scan's agent is allowed to remediate
ScanTestOnlyOff == FALSE

\* the test_only argument run_agent_scan constructs the agent with
ScanTestOnly == TRUE

\* r.get('detection', {}).get('has_issues', False) raises AttributeError when the
\* 'detection' key holds None
SummaryRaises(results) == \E k \in 1..Len(results) : results[k].detection = None

\* mutant: the except clause stores nothing
PublishedSnapshotKeepsOldOnError(s, results) ==
    IF ~SummaryRaises(results)
    THEN [kind |-> "report", scan |-> s]
    ELSE current_scan_results

\* the value run_agent_scan binds current_scan_results to, for scan s
PublishedSnapshot(s, results) ==
    IF ~SummaryRaises(results)
    THEN [kind |-> "report", scan |-> s]
    ELSE [kind |-> "error", scan |-> s]

\* run_agent_scan: construct the agent, run it, build the summary and bind
\* current_scan_results, in the try block or in the except clause
ScanRun(s) ==
    /\ scans[s].pc = "running"
    /\ \E ps \in AgentRun(scans[s].modules, enabled_modules, ScanTestOnly, 1) :
          LET snapshot == PublishedSnapshot(s, ResultsOf(ps))
          IN  /\ scans' = [scans EXCEPT ![s].pc = "published", ![s].modules = <<>>]
              /\ current_scan_results' = snapshot
              /\ reports' = Collect([reports EXCEPT ![s] = ResultsOf(ps)],
                                    snapshot, scans', fixes)
    /\ response' = NoResponse
    /\ UNCHANGED <<agent, remediator, enabled_modules, is_admin, scan_in_progress, fixes>>

\* mutant: run_agent_scan without its finally clause
ScanFinallyKeepsFlag(s) ==
    /\ scans[s].pc = "published"
    /\ scans' = [scans EXCEPT ![s] = DoneScan]
    /\ reports' = Collect(reports, current_scan_results, scans', fixes)
    /\ response' = NoResponse
    /\ UNCHANGED <<agent, remediator, enabled_modules, is_admin, scan_in_progress,
                   current_scan_results, fixes>>

\* run_agent_scan, the finally clause
ScanFinally(s) ==
    /\ scans[s].pc = "published"
    /\ scans' = [scans EXCEPT ![s] = DoneScan]
    /\ scan_in_progress' = FALSE
    /\ reports' = Collect(reports, current_scan_results, scans', fixes)
    /\ response' = NoResponse
    /\ UNCHANGED <<agent, remediator, enabled_modules, is_admin, current_scan_results, fixes>>

(* ---- fix_issue and run_fix ---- *)
\* the index of the first result whose 'module' is module_name, 0 if there is none
FindModule(results, module_name) ==
    IF \E k \in 1..Len(results) : results[k].module = module_name
    THEN CHOOSE k \in 1..Len(results) :
            /\ results[k].module = module_name
            /\ \A j \in 1..(k - 1) : results[j].module /= module_name
    ELSE 0

\* mutant: fix_issue without the privilege check
FixCodeNoPrivilegeCheck(admin, cur, results, module_name, issue_index) ==
    LET k == FindModule(results, module_name)
    IN  IF cur.kind = "none" THEN 404
        ELSE IF k = 0 THEN 404
        ELSE IF results[k].detection = None THEN 500
        ELSE IF issue_index >= Len(results[k].detection.issues) THEN 404
        ELSE 200

\* the checks of fix_issue, in order: the status code of the rejection, 200 when
\* the fix is dispatched (500: detection is None, .get raises in the handler)
FixCode(admin, cur, results, module_name, issue_index) ==
    LET k == FindModule(results, module_name)
    IN  IF ~admin THEN 403
        ELSE IF cur.kind = "none" THEN 404
        ELSE IF k = 0 THEN 404
        ELSE IF results[k].detection = None THEN 500
        ELSE IF issue_index >= Len(results[k].detection.issues) THEN 404
        ELSE 200

\* issue_text = issues[issue_index], lists being 0-based in the source
IssueAt(issues, issue_index) == issues[issue_index + 1]

\* POST /api/fix/<module_name>/<issue_index>
FixIssue ==
    \E module_name \in ModuleNames, issue_index \in 0..MaxIssues :
       LET code == FixCode(is_admin, current_scan_results, CurrentResults,
                           module_name, issue_index)
           k == FindModule(CurrentResults, module_name)
       IN  IF code /= 200
           THEN /\ response' = [op |-> "fix", code |-> code]
                /\ UNCHANGED <<agent, remediator, enabled_modules, is_admin, scan_in_progress,
                               current_scan_results, reports, scans, fixes>>
           ELSE /\ \E f \in FixIds :
                      /\ fixes[f].pc = "idle"
                      /\ \A g \in FixIds : g < f => fixes[g].pc /= "idle"
                      /\ fixes' = [fixes EXCEPT ![f] =
                             [IdleFix EXCEPT
                                !.pc = "launched",
                                !.module = module_name,
                                !.issue = IssueAt(CurrentResults[k].detection.issues,
                                                  issue_index),
                                !.scan = current_scan_results.scan,
                                !.k = k]]
                /\ response' = [op |-> "fix", code |-> 200, module |-> module_name,
                                index |-> issue_index,
                                issue |-> IssueAt(CurrentResults[k].detection.issues,
                                                  issue_index)]
                /\ UNCHANGED <<agent, remediator, enabled_modules, is_admin, scan_in_progress,
                               current_scan_results, reports, scans>>

\* the issue list run_fix hands to run_remediation
FixIssues(issue_text) == <<issue_text>>

\* what run_fix is about to store after the remediator call with outcome o:
\* the try block's result and status, or the except clause's
FixOutcome(module_name, o) ==
    IF module_name \notin Registered
    THEN [result |-> [success |-> FALSE, error |-> "Unknown module"],
          status |-> "REMEDIATION_FAILED"]
    ELSE IF o.raises
    THEN [result |-> [success |-> FALSE, error |-> "remediation failed"],
          status |-> "REMEDIATION_ERROR"]
    ELSE [result |-> RemediationResult(o.success),
          status |-> IF o.success THEN "REMEDIATION_SUCCESS" ELSE "REMEDIATION_FAILED"]

\* run_fix: the remediator is constructed and run_remediation([issue_text]) called
FixRemediate(f) ==
    /\ fixes[f].pc = "launched"
    /\ \E o \in RemediateOutcomes :
          LET out == FixOutcome(fixes[f].module, o)
          IN  fixes' = [fixes EXCEPT
                          ![f].pc = "write_remediation",
                          ![f].called = IF fixes[f].module \in Registered
                                        THEN Append(@, FixIssues(fixes[f].issue))
                                        ELSE @,
                          ![f].result = out.result,
                          ![f].status = out.status]
    /\ response' = NoResponse
    /\ UNCHANGED <<agent, remediator, enabled_modules, is_admin, scan_in_progress,
                   current_scan_results, reports, scans>>

\* mutant: run_fix looks the module up in current_scan_results when it writes
FixTargetCurrent(f) == current_scan_results.scan

\* the snapshot object that holds the module_result run_fix closed over
FixTarget(f) == fixes[f].scan

\* the results list after module_result['remediation'] = result
WriteRemediation(results, k, result) == [results EXCEPT ![k].remediation = result]

\* mutant: the status is written to the first result of the list
WriteStatusFirstResult(results, k, status) == [results EXCEPT ![1].status = status]

\* the results list after module_result['status'] = ...
WriteStatus(results, k, status) == [results EXCEPT ![k].status = status]

FixWriteRemediation(f) ==
    /\ fixes[f].pc = "write_remediation"
    /\ fixes' = [fixes EXCEPT ![f].pc = "write_status"]
    /\ reports' = [reports EXCEPT ![FixTarget(f)] =
                      WriteRemediation(@, fixes[f].k, fixes[f].result)]
    /\ response' = NoResponse
    /\ UNCHANGED <<agent, remediator, enabled_modules, is_admin, scan_in_progress,
                   current_scan_results, scans>>

FixWriteStatus(f) ==
    /\ fixes[f].pc = "write_status"
    /\ fixes' = [fixes EXCEPT ![f].pc = "finished"]
    /\ reports' = [reports EXCEPT ![FixTarget(f)] =
                      WriteStatus(@, fixes[f].k, fixes[f].status)]
    /\ response' = NoResponse
    /\ UNCHANGED <<agent, remediator, enabled_modules, is_admin, scan_in_progress,
                   current_scan_results, scans>>

\* run_fix returns: the thread and its reference to module_result are gone
FixExit(f) ==
    /\ fixes[f].pc = "finished"
    /\ fixes' = [fixes EXCEPT ![f] = DoneFix]
    /\ reports' = Collect(reports, current_scan_results, scans, fixes')
    /\ response' = NoResponse
    /\ UNCHANGED <<agent, remediator, enabled_modules, is_admin, scan_in_progress,
                   current_scan_results, scans>>

(* ---- the remediators: run_remediation called on its own ---- *)
\* platform_detector.get_os_type() of the host
Platforms == {"windows", "macos", "linux"}

\* An issue text is modelled by the keyword-bearing substrings that occur in
\* it, each in the letter case in which it occurs.
\* str.lower() of such a substring
Lower(t) ==
    CASE t = "DNS" -> "dns"
      [] t = "DHCP" -> "dhcp"
      [] t = "CUPS" -> "cups"
      [] t = "Print" -> "print"
      [] t = "Spooler" -> "spooler"
      [] t = "No printers" -> "no printers"
      [] OTHER -> t

\* kw in issue
Contains(issue, kw) == kw \in issue

\* kw in issue.lower()
ContainsLower(issue, kw) == \E t \in issue : Lower(t) = kw

\* "No internet connectivity detected: ...", "DNS resolution failed for ...",
\* "No default gateway configured", and a text in lower case, "dns lookup failed"
NetworkTexts == {{"internet", "connectivity"}, {"DNS", "resolution"}, {"gateway"}, {"dns"}}

\* "CRITICAL: / has only 3GB free (2.0%)", "WARNING: / has only 8GB free (5.0%)"
DiskTexts == {{"CRITICAL"}, {"WARNING"}}

\* "Service 'Print Spooler' (Spooler) is stopped", "Service 'DHCP Client' (Dhcp)
\* is stopped", "Service 'DNS Client' (Dnscache) is stopped", "DHCP and DNS
\* client services are stopped", "Service 'Network Manager' (NetworkManager) is
\* stopped"
ServiceTexts ==
    {{"Print", "Spooler", "stopped"}, {"DHCP", "stopped"}, {"DNS", "stopped"},
     {"DHCP", "DNS", "stopped"}, {"stopped"}}

\* "Print Spooler service is not running", "2 stuck print job(s) in queue",
\* "3 print job(s) in CUPS queue", "CUPS printing service is not running",
\* "No printers installed"
PrinterTexts ==
    {{"Spooler", "not running"}, {"stuck", "job", "queue"}, {"CUPS", "job", "queue"},
     {"CUPS", "not running"}, {"No printers"}}

\* the print-queue issue text PrinterDetector emits on a platform:
\* check_print_queue_windows or check_print_queue_cups
QueueTextOf(platform) ==
    IF platform = "windows" THEN {"stuck", "job", "queue"} ELSE {"CUPS", "job", "queue"}

TextsOf(module) ==
    CASE module = "network" -> NetworkTexts
      [] module = "disk" -> DiskTexts
      [] module = "service" -> ServiceTexts
      [] module = "printer" -> PrinterTexts

\* the issue lists of at most MaxTexts texts a remediator is called with
IssueLists(module) == UNION {[1..n -> TextsOf(module)] : n \in 0..MaxTexts}

\* mutant: the adapter reset is not gated by the number of issues
NetworkStepsResetUngated(issues) ==
    LET has_dns_issue ==
            \E k \in 1..Len(issues) :
               Contains(issues[k], "DNS") \/ Contains(issues[k], "resolution")
        has_connectivity_issue ==
            \E k \in 1..Len(issues) :
               ContainsLower(issues[k], "internet")
                  \/ ContainsLower(issues[k], "connectivity")
        has_gateway_issue ==
            \E k \in 1..Len(issues) : ContainsLower(issues[k], "gateway")
        step(cond, name) == IF cond THEN <<[issue |-> 0, step |-> name]>> ELSE <<>>
    IN  step(has_dns_issue, "flush_dns_cache")
           \o step(has_connectivity_issue \/ has_gateway_issue, "renew_dhcp_lease")
           \o step(has_connectivity_issue, "restart_network_service")
           \o step(has_connectivity_issue, "reset_network_adapter")

\* NetworkRemediator.run_remediation: the three flags and the steps they lead
\* to, in the order of the code
NetworkSteps(issues) ==
    LET has_dns_issue ==
            \E k \in 1..Len(issues) :
               Contains(issues[k], "DNS") \/ Contains(issues[k], "resolution")
        has_connectivity_issue ==
            \E k \in 1..Len(issues) :
               ContainsLower(issues[k], "internet")
                  \/ ContainsLower(issues[k], "connectivity")
        has_gateway_issue ==
            \E k \in 1..Len(issues) : ContainsLower(issues[k], "gateway")
        step(cond, name) == IF cond THEN <<[issue |-> 0, step |-> name]>> ELSE <<>>
    IN  step(has_dns_issue, "flush_dns_cache")
           \o step(has_connectivity_issue \/ has_gateway_issue, "renew_dhcp_lease")
           \o step(has_connectivity_issue, "restart_network_service")
           \o step(has_connectivity_issue /\ Len(issues) > 2, "reset_network_adapter")

\* mutant: the cleanups run only for a critical issue
DiskStepsOnlyCritical(issues) ==
    IF \E k \in 1..Len(issues) : Contains(issues[k], "CRITICAL")
    THEN <<[issue |-> 0, step |-> "clean_temp_files"],
           [issue |-> 0, step |-> "clean_browser_cache"],
           [issue |-> 0, step |-> "clean_system_logs"],
           [issue |-> 0, step |-> "empty_recycle_bin"]>>
    ELSE <<>>

\* DiskRemediator.run_remediation: the four cleanups, whatever the issues are
DiskSteps(issues) ==
    <<[issue |-> 0, step |-> "clean_temp_files"],
      [issue |-> 0, step |-> "clean_browser_cache"],
      [issue |-> 0, step |-> "clean_system_logs"],
      [issue |-> 0, step |-> "empty_recycle_bin"]>>

\* ServiceRemediator.run_remediation: the branches of the if/elif chain in the
\* order of the code, each with its keywords and the step it calls on this
\* platform; the last is the generic restart of the extracted service name
ServiceRouting(platform) ==
    LET on(win, linux) == IF platform = "windows" THEN win
                          ELSE IF platform = "linux" THEN linux ELSE <<>>
    IN  <<[keywords |-> {"spooler", "print"}, steps |-> <<"fix_print_spooler">>],
          [keywords |-> {"dhcp"},
           steps |-> on(<<"restart_service Dhcp">>, <<"restart_service dhclient">>)],
          [keywords |-> {"dns"},
           steps |-> on(<<"restart_service Dnscache">>,
                        <<"restart_service systemd-resolved">>)],
          [keywords |-> {"update", "wuauserv"},
           steps |-> on(<<"restart_service wuauserv">>, <<>>)],
          [keywords |-> {"defender", "windefend"},
           steps |-> on(<<"restart_service WinDefend">>, <<>>)],
          [keywords |-> {"ssh"},
           steps |-> on(<<"restart_service sshd">>, <<"restart_service ssh">>)],
          [keywords |-> {"stopped", "not running"},
           steps |-> <<"restart_service extracted">>]>>

\* self.actions_taken.append("No printers installed - requires manual setup")
ManualSetup == "requires manual setup"

\* PrinterRemediator.run_remediation: the branches of the if/elif chain of this
\* platform, in the order of the code
PrinterRouting(platform) ==
    IF platform = "windows"
    THEN <<[keywords |-> {"spooler", "not running"},
            steps |-> <<"restart_print_spooler_windows">>],
           [keywords |-> {"stuck", "queue", "job"},
            steps |-> <<"clear_print_queue_windows", "restart_print_spooler_windows">>],
           [keywords |-> {"no printers"}, steps |-> <<ManualSetup>>]>>
    ELSE <<[keywords |-> {"cups", "not running", "not active"},
            steps |-> <<"restart_cups_service">>],
           [keywords |-> {"queue", "job"},
            steps |-> <<"clear_cups_queue", "restart_cups_service">>],
           [keywords |-> {"no printers"}, steps |-> <<ManualSetup>>]>>

\* any(kw in issue_lower for kw in keywords)
Matches(issue, keywords) == \E kw \in keywords : ContainsLower(issue, kw)

\* the branch of an if/elif chain that an issue takes: the first whose keywords
\* it matches, 0 if it matches none
FirstMatch(issue, routing) ==
    IF \E r \in 1..Len(routing) : Matches(issue, routing[r].keywords)
    THEN CHOOSE r \in 1..Len(routing) :
            /\ Matches(issue, routing[r].keywords)
            /\ \A q \in 1..(r - 1) : ~Matches(issue, routing[q].keywords)
    ELSE 0

\* for issue in issues: the steps called, from the k-th issue on
RECURSIVE LoopSteps(_, _, _)
LoopSteps(issues, routing, k) ==
    IF k > Len(issues) THEN <<>>
    ELSE LET r == FirstMatch(issues[k], routing)
             st == IF r = 0 THEN <<>> ELSE routing[r].steps
         IN  [j \in 1..Len(st) |-> [issue |-> k, step |-> st[j]]]
                \o LoopSteps(issues, routing, k + 1)

\* the corrective steps one run_remediation call makes, in order, each with the
\* index of the issue it was called for (0: not called for one issue)
Invoked(module, platform, issues) ==
    CASE module = "network" -> NetworkSteps(issues)
      [] module = "disk" -> DiskSteps(issues)
      [] module = "service" -> LoopSteps(issues, ServiceRouting(platform), 1)
      [] module = "printer" -> LoopSteps(issues, PrinterRouting(platform), 1)

\* the steps that append their action on every call: the manual-setup note of
\* the printer remediator, and clean_temp_files, whose fallible work is inside
\* an inner try that only logs
AlwaysRecords(step) == step \in {ManualSetup, "clean_temp_files"}

\* self.actions_taken: the steps that appended their action, in call order; a
\* step that fails catches its exception, appends nothing and returns False
RECURSIVE ActionsTaken(_, _, _)
ActionsTaken(invoked, recorded, j) ==
    IF j > Len(invoked) THEN <<>>
    ELSE (IF j \in recorded THEN <<invoked[j].step>> ELSE <<>>)
            \o ActionsTaken(invoked, recorded, j + 1)

\* mutant: success reports that no exception reached run_remediation
RemediationReturnNoException(actions_taken) ==
    [success |-> TRUE, actions_taken |-> actions_taken,
     action_count |-> Len(actions_taken)]

\* remediation_success = len(self.actions_taken) > 0 and the dict returned
RemediationReturn(actions_taken) ==
    [success |-> Len(actions_taken) > 0, actions_taken |-> actions_taken,
     action_count |-> Len(actions_taken)]

NoRemediator ==
    [pc |-> "none", module |-> "", platform |-> "", issues |-> <<>>,
     invoked |-> <<>>, result |-> None]

\* remediator = Remediator() on a host of this platform, about to be called
\* with `issues`
NewRemediator(module, platform, issues) ==
    [pc |-> "constructed", module |-> module, platform |-> platform,
     issues |-> issues, invoked |-> <<>>, result |-> None]

\* mutant: a step that fails raises, and the steps after it are not called
RunRemediationStopsAtFailure(module) ==
    /\ remediator.pc = "constructed"
    /\ remediator.module = module
    /\ LET inv == Invoked(module, remediator.platform, remediator.issues)
       IN  \E recorded \in SUBSET (1..Len(inv)) :
              LET failed == {j \in 1..Len(inv) : j \notin recorded}
                  last == IF failed = {} THEN Len(inv)
                          ELSE CHOOSE j \in failed : \A i \in failed : j <= i
                  called == SubSeq(inv, 1, last)
              IN  /\ \A j \in 1..Len(inv) : AlwaysRecords(inv[j].step) => j \in recorded
                  /\ remediator' =
                        [remediator EXCEPT
                            !.pc = "returned",
                            !.invoked = called,
                            !.result = RemediationReturn(
                                          ActionsTaken(called, recorded, 1))]
    /\ UNCHANGED <<agent, enabled_modules, dashboard_vars>>

\* one run_remediation call of the remediator of `module`: the steps chosen
\* from the issue texts, each recording its action or failing, and the return
RunRemediation(module) ==
    /\ remediator.pc = "constructed"
    /\ remediator.module = module
    /\ LET inv == Invoked(module, remediator.platform, remediator.issues)
       IN  \E recorded \in SUBSET (1..Len(inv)) :
              /\ \A j \in 1..Len(inv) : AlwaysRecords(inv[j].step) => j \in recorded
              /\ remediator' =
                    [remediator EXCEPT
                        !.pc = "returned",
                        !.invoked = inv,
                        !.result = RemediationReturn(ActionsTaken(inv, recorded, 1))]
    /\ UNCHANGED <<agent, enabled_modules, dashboard_vars>>

NetworkRunRemediation == RunRemediation("network")
DiskRunRemediation == RunRemediation("disk")
ServiceRunRemediation == RunRemediation("service")
PrinterRunRemediation == RunRemediation("printer")

(* ---- the specifications ---- *)
Init ==
    /\ agent = NoAgent
    /\ enabled_modules \in EnabledChoices
    /\ is_admin \in BOOLEAN
    /\ scan_in_progress = FALSE
    /\ current_scan_results = NoResults
    /\ reports = [s \in ScanIds |-> <<>>]
    /\ scans = [s \in ScanIds |-> IdleScan]
    /\ fixes = FixSlots(MaxFixes)
    /\ response = NoResponse
    /\ remediator = NoRemediator

Next ==
    \/ StartScan
    \/ \E s \in ScanIds : ScanBegin(s)
    \/ \E s \in ScanIds : ScanRun(s)
    \/ \E s \in ScanIds : ScanFinally(s)
    \/ FixIssue
    \/ \E f \in FixIds : FixRemediate(f)
    \/ \E f \in FixIds : FixWriteRemediation(f)
    \/ \E f \in FixIds : FixWriteStatus(f)
    \/ \E f \in FixIds : FixExit(f)

Spec == Init /\ [][Next]_vars

\* the scan side of the dashboard: fix threads write neither scan_in_progress
\* nor the binding of current_scan_results
NextScan ==
    \/ StartScan
    \/ \E s \in ScanIds : ScanBegin(s)
    \/ \E s \in ScanIds : ScanRun(s)
    \/ \E s \in ScanIds : ScanFinally(s)

\* a started scan thread is scheduled until it returns, its Agent run
\* terminating; requests are under no obligation
ScanFairness ==
    \A s \in ScanIds : /\ WF_vars(ScanBegin(s))
                       /\ WF_vars(ScanRun(s))
                       /\ WF_vars(ScanFinally(s))

SpecLive == Init /\ [][NextScan]_vars /\ ScanFairness

InitAgent ==
    /\ \E test_only \in BOOLEAN, modules \in ModuleLists :
          agent = NewAgent(test_only, modules)
    /\ enabled_modules \in EnabledChoices
    /\ is_admin \in BOOLEAN
    /\ scan_in_progress = FALSE
    /\ current_scan_results = NoResults
    /\ reports = [s \in ScanIds |-> <<>>]
    /\ scans = [s \in ScanIds |-> IdleScan]
    /\ fixes = FixSlots(MaxFixes)
    /\ response = NoResponse
    /\ remediator = NoRemediator

NextAgent ==
    \/ AgentSkipDisabled
    \/ AgentBeginModule
    \/ AgentNotImplemented
    \/ AgentDetect
    \/ AgentRemediate
    \/ AgentSettle
    \/ AgentVerify
    \/ AgentErrorText
    \/ AgentCollect
    \/ AgentReturn

SpecAgent == InitAgent /\ [][NextAgent]_vars

InitRemediate ==
    /\ \E module \in Registered, platform \in Platforms :
          \E issues \in IssueLists(module) :
             remediator = NewRemediator(module, platform, issues)
    /\ agent = NoAgent
    /\ enabled_modules = DefaultEnabled
    /\ is_admin = TRUE
    /\ scan_in_progress = FALSE
    /\ current_scan_results = NoResults
    /\ reports = [s \in ScanIds |-> <<>>]
    /\ scans = [s \in ScanIds |-> IdleScan]
    /\ fixes = FixSlots(MaxFixes)
    /\ response = NoResponse

NextRemediate ==
    \/ NetworkRunRemediation
    \/ DiskRunRemediation
    \/ ServiceRunRemediation
    \/ PrinterRunRemediation

SpecRemediate == InitRemediate /\ [][NextRemediate]_vars

\* the dashboard after one scan has published its report and returned, with
\* room for MaxConcurrentFixes fix threads
InitFix ==
    /\ agent = NoAgent
    /\ enabled_modules \in EnabledChoices
    /\ is_admin \in BOOLEAN
    /\ scan_in_progress = FALSE
    /\ scans = [s \in ScanIds |-> IF s = 1 THEN DoneScan ELSE IdleScan]
    /\ \E modules \in ScanModuleLists :
          \E ps \in AgentRun(modules, enabled_modules, ScanTestOnly, 1) :
             /\ current_scan_results = PublishedSnapshot(1, ResultsOf(ps))
             /\ reports = Collect([s \in ScanIds |-> IF s = 1 THEN ResultsOf(ps) ELSE <<>>],
                                  current_scan_results, scans, FixSlots(MaxConcurrentFixes))
    /\ fixes = FixSlots(MaxConcurrentFixes)
    /\ response = NoResponse
    /\ remediator = NoRemediator

NextFix ==
    \/ FixIssue
    \/ \E f \in FixIds : FixRemediate(f)
    \/ \E f \in FixIds : FixWriteRemediation(f)
    \/ \E f \in FixIds : FixWriteStatus(f)
    \/ \E f \in FixIds : FixExit(f)

SpecFix == InitFix /\ [][NextFix]_vars

(* ---- claims about the scan/fix coordinator (Spec) ---- *)
\* the scan threads whose Agent run has been accepted and has not returned yet
AgentRunsInFlight == {s \in ScanIds : scans[s].pc \in {"launched", "running"}}

\* C1: at most one background Agent run is in flight at a time; a StartScan
\* issued after another was accepted and before that scan completed starts no
\* second run.
C1_AtMostOneAgentRun == Cardinality(AgentRunsInFlight) <= 1

\* C2: once StartScan has accepted a scan, in_progress is true until that scan
\* completes, so every status read in between observes true.
C2_InProgressOnceAccepted ==
    \A s \in ScanIds :
       scans[s].pc \in {"launched", "running", "published"} => scan_in_progress

\* C3: when the Agent run of a scan has returned its list of ModuleResults, the
\* snapshot that scan publishes holds that list, whatever the statuses in it.
C3_SnapshotHoldsReturnedList ==
    \A s \in ScanIds :
       (scans[s].pc = "published" /\ current_scan_results.scan = s)
          => current_scan_results.kind = "report"

\* C4: when a scan's finally clause takes in_progress from true to false, the
\* snapshot is no longer the one that was current when the scan was accepted.
C4_PublishedBeforeCleared ==
    [][\A s \in ScanIds :
          (/\ scans[s].pc = "published"
           /\ scans'[s].pc = "done"
           /\ scan_in_progress
           /\ ~scan_in_progress')
             => /\ current_scan_results' /= scans[s].before
                /\ current_scan_results'.kind /= "none"]_vars

C4_Witness ==
    /\ \A s \in ScanIds : scans[s].pc = "done"
    /\ ~scan_in_progress
    /\ current_scan_results.kind = "report"

\* the rejection conditions of a fix request for module m and issue index i
FixShouldBeRejected(m, i) ==
    LET k == FindModule(CurrentResults, m)
    IN  \/ ~is_admin
        \/ current_scan_results.kind = "none"
        \/ k = 0
        \/ /\ k /= 0
           /\ CurrentResults[k].detection /= None
           /\ i >= Len(CurrentResults[k].detection.issues)

\* C5: a fix request that meets a rejection condition is not dispatched; a
\* rejected request is answered 403 without privilege and 404 otherwise, and
\* leaves the fix threads, the snapshot, its results and in_progress unchanged.
C5_RejectedFixHasNoEffect ==
    [][/\ (response'.op = "fix" /\ response'.code = 200)
            => ~FixShouldBeRejected(response'.module, response'.index)
       /\ (response'.op = "fix" /\ response'.code /= 200)
            => /\ response'.code = IF ~is_admin THEN 403 ELSE 404
               /\ UNCHANGED <<fixes, scans, reports, current_scan_results,
                              scan_in_progress>>]_vars

C5_Witness ==
    /\ response.op = "fix"
    /\ response.code = 404
    /\ current_scan_results.kind = "report"
    /\ \E k \in 1..Len(CurrentResults) : CurrentResults[k].detection.has_issues
    /\ \A f \in FixIds : fixes[f].pc = "idle"

\* ModuleResult b is ModuleResult a up to its remediation and status fields
SameButRemediationAndStatus(a, b) ==
    [b EXCEPT !.remediation = a.remediation, !.status = a.status] = a

\* C6: an accepted fix calls the remediator once, with the one-element list of
\* the issue at the requested index of the snapshot read by the handler; the
\* steps of its thread change nothing but the remediation and then the status
\* of that one ModuleResult.
C6_FixTouchesOneResult ==
    [][\A f \in FixIds :
          (fixes'[f].pc /= fixes[f].pc) =>
             /\ scan_in_progress' = scan_in_progress
             /\ current_scan_results' = current_scan_results
             /\ fixes'[f].pc = "launched" =>
                  LET k == FindModule(CurrentResults, response'.module)
                  IN  /\ fixes'[f].module = response'.module
                      /\ fixes'[f].scan = current_scan_results.scan
                      /\ fixes'[f].k = k
                      /\ fixes'[f].issue =
                            CurrentResults[k].detection.issues[response'.index + 1]
                      /\ fixes'[f].called = <<>>
             /\ fixes'[f].pc \in {"write_remediation", "write_status", "finished"} =>
                  /\ fixes'[f].called = << <<fixes'[f].issue>> >>
                  /\ fixes'[f].issue = fixes[f].issue
                  /\ fixes'[f].scan = fixes[f].scan
                  /\ fixes'[f].k = fixes[f].k
             /\ \A s \in ScanIds :
                  \/ fixes'[f].pc = "done" /\ reports'[s] = <<>>
                  \/ /\ Len(reports'[s]) = Len(reports[s])
                     /\ \A j \in 1..Len(reports[s]) :
                           IF s = fixes[f].scan /\ j = fixes[f].k
                           THEN SameButRemediationAndStatus(reports[s][j], reports'[s][j])
                           ELSE reports'[s][j] = reports[s][j]
             /\ fixes'[f].pc = "write_status" =>
                  /\ reports'[fixes[f].scan][fixes[f].k].remediation = fixes[f].result
                  /\ reports'[fixes[f].scan][fixes[f].k].status =
                        reports[fixes[f].scan][fixes[f].k].status
             /\ fixes'[f].pc = "finished" =>
                  /\ reports'[fixes[f].scan][fixes[f].k].status = fixes[f].status
                  /\ reports'[fixes[f].scan][fixes[f].k].remediation =
                        reports[fixes[f].scan][fixes[f].k].remediation]_vars

C6_Witness ==
    \E f \in FixIds :
       /\ fixes[f].pc = "finished"
       /\ fixes[f].k = 2
       /\ fixes[f].issue = 2
       /\ reports[fixes[f].scan][2].remediation = fixes[f].result
       /\ reports[fixes[f].scan][2].status = fixes[f].status
       /\ reports[fixes[f].scan][1].remediation = None

\* a fix thread about to write while current_scan_results is no longer bound to
\* the snapshot its module_result belongs to
WritesOrphan(f) ==
    /\ fixes[f].pc \in {"write_remediation", "write_status"}
    /\ current_scan_results.scan /= fixes[f].scan

\* C7: when a scan has published a new snapshot before a fix thread writes, the
\* thread writes its remediation and status into the old ModuleResult; the
\* current snapshot and its results are unchanged and nothing reports it.
C7_OrphanedFixWritesOldObject ==
    [][\A f \in FixIds :
          (WritesOrphan(f) /\ fixes'[f].pc /= fixes[f].pc) =>
             /\ current_scan_results' = current_scan_results
             /\ \A s \in ScanIds : s /= fixes[f].scan => reports'[s] = reports[s]
             /\ response' = NoResponse
             /\ fixes'[f].status = fixes[f].status
             /\ fixes[f].status \in {"REMEDIATION_SUCCESS", "REMEDIATION_FAILED",
                                     "REMEDIATION_ERROR"}
             /\ fixes[f].pc = "write_remediation" =>
                  reports'[fixes[f].scan][fixes[f].k].remediation = fixes[f].result
             /\ fixes[f].pc = "write_status" =>
                  reports'[fixes[f].scan][fixes[f].k].status = fixes[f].status]_vars

C7_Witness ==
    \E f \in FixIds :
       LET j == FindModule(CurrentResults, fixes[f].module)
       IN  /\ fixes[f].pc = "finished"
           /\ current_scan_results.kind = "report"
           /\ current_scan_results.scan /= fixes[f].scan
           /\ j /= 0
           /\ CurrentResults[j].remediation = None
           /\ CurrentResults[j].status \in {"NO_ISSUES", "TEST_ONLY"}
           /\ reports[fixes[f].scan][fixes[f].k].remediation = fixes[f].result
           /\ reports[fixes[f].scan][fixes[f].k].status = fixes[f].status

(* ---- claims about one pipeline of the agent (SpecAgent) ---- *)
\* the pipeline in progress, its result and its calls
InPipeline == agent.pc = "module"

\* the calls of the pipeline in progress made to operation op
CallsOf(op) == {i \in 1..Len(agent.p.calls) : agent.p.calls[i].op = op}

\* C8: the remediator is called only when the initial detection has issues and
\* test_only is false; without issues the pipeline ends NO_ISSUES, with issues
\* in test-only mode it ends TEST_ONLY, in both cases after one detector call
\* and with remediation and verification null.
C8_RemediateOnlyOnIssuesOutsideTestMode ==
    InPipeline =>
       LET r == agent.p.result
       IN  /\ CallsOf("remediate") /= {} =>
                (r.detection /= None /\ r.detection.has_issues /\ ~agent.test_only)
           /\ (r.detection /= None /\ (~r.detection.has_issues \/ agent.test_only)) =>
                /\ agent.p.pc = "done"
                /\ r.status = IF r.detection.has_issues THEN "TEST_ONLY" ELSE "NO_ISSUES"
                /\ r.remediation = None
                /\ r.verification = None
                /\ Cardinality(CallsOf("detect")) = 1
                /\ Len(agent.p.calls) = 1

C8_Witness ==
    /\ InPipeline
    /\ agent.p.pc = "done"
    /\ agent.test_only
    /\ agent.p.result.detection /= None
    /\ agent.p.result.detection.has_issues
    /\ agent.p.result.status = "TEST_ONLY"

\* C9: with issues detected and test_only false the calls are, in order, detect,
\* remediate (once, with the detection's issue list), the settle wait, detect;
\* the status then is REMEDIATION_PARTIAL if the verification has issues and
\* REMEDIATION_SUCCESS otherwise.
C9_DetectRemediateSettleVerify ==
    (/\ InPipeline
     /\ agent.p.result.detection /= None
     /\ agent.p.result.detection.has_issues
     /\ ~agent.test_only) =>
       LET r == agent.p.result
           c == agent.p.calls
           ops == [i \in 1..Len(c) |-> c[i].op]
       IN  /\ agent.p.pc = "detected" => ops = <<"detect">>
           /\ agent.p.pc = "remediated" =>
                (ops = <<"detect", "remediate">> /\ c[2].issues = r.detection.issues)
           /\ agent.p.pc = "settled" =>
                /\ ops = <<"detect", "remediate", "settle">>
                /\ c[2].issues = r.detection.issues
                /\ c[3].seconds = SettleDelay(r.module)
           /\ (agent.p.pc = "done" /\ r.status /= "ERROR") =>
                /\ ops = <<"detect", "remediate", "settle", "detect">>
                /\ r.remediation /= None
                /\ r.verification /= None
                /\ r.status = IF r.verification.has_issues
                              THEN "REMEDIATION_PARTIAL" ELSE "REMEDIATION_SUCCESS"

C9_Witness ==
    /\ InPipeline
    /\ agent.p.pc = "done"
    /\ agent.p.result.status = "REMEDIATION_PARTIAL"
    /\ agent.p.result.remediation.success
    /\ Len(agent.p.calls) = 4

\* C10: a call that raises is the last call of its pipeline, which goes to the
\* except clause and ends with status ERROR and the exception's message as
\* error; ERROR arises in no other way.
C10_RaiseEndsPipelineInError ==
    InPipeline =>
       LET r == agent.p.result
           c == agent.p.calls
       IN  /\ \A i \in 1..Len(c) :
                c[i].raised =>
                   /\ i = Len(c)
                   /\ agent.p.pc \in {"except", "done"}
                   /\ r.status = "ERROR"
                   /\ agent.p.pc = "done" =>
                        r.error = [message |-> ExceptionMessage(c[i].op)]
           /\ r.status = "ERROR" => (Len(c) > 0 /\ c[Len(c)].raised)
           /\ r.status /= "ERROR" => r.error = None

C10_Witness ==
    /\ InPipeline
    /\ agent.p.pc = "done"
    /\ agent.p.result.status = "ERROR"
    /\ Len(agent.p.calls) = 4
    /\ agent.p.calls[4].raised
    /\ agent.p.result.error = [message |-> "detection failed"]

\* the six terminal values of a ModuleResult's status
TerminalStatuses ==
    {"NO_ISSUES", "TEST_ONLY", "REMEDIATION_SUCCESS", "REMEDIATION_PARTIAL",
     "NOT_IMPLEMENTED", "ERROR"}

\* C11: within one pipeline invocation the status only moves from NOT_RUN to a
\* terminal value, is assigned at most once, and once it is terminal no step of
\* the invocation writes a field of the ModuleResult.
C11_StatusTerminalOnce ==
    [][(agent.pc = "module" /\ agent'.pc = "module") =>
          LET r == agent.p.result
              q == agent'.p.result
          IN  /\ q.status /= r.status =>
                   (r.status = "NOT_RUN" /\ q.status \in TerminalStatuses)
              /\ r.status \in TerminalStatuses => q = r]_vars

\* the requested modules that run() hands to run_module, in order
EnabledRequested == SelectSeq(agent.requested, LAMBDA m : m \in enabled_modules)

\* C12: whatever detector and remediator calls raise, run() goes on to its
\* return: a step is possible in every state before the exit, the results
\* collected are ModuleResults with a terminal status, and at the return there
\* is one for each module handed to run_module, those after an ERROR included.
C12_RunReturnsDespiteErrors ==
    /\ agent.pc \in {"loop", "module"} => ENABLED NextAgent
    /\ agent.pc \in {"loop", "module", "exited"} =>
          \A k \in 1..Len(agent.results) :
             /\ agent.results[k].status \in TerminalStatuses
             /\ agent.results[k].module = EnabledRequested[k]
    /\ agent.pc = "exited" => Len(agent.results) = Len(EnabledRequested)

C12_Witness ==
    /\ agent.pc = "exited"
    /\ Len(agent.results) = 2
    /\ agent.results[1].status = "ERROR"
    /\ agent.results[1].remediation /= None
    /\ agent.results[2].status = "REMEDIATION_SUCCESS"

\* the modules among the first n requested that run() hands to run_module
EnabledAmong(n) ==
    SelectSeq(SubSeq(agent.requested, 1, n), LAMBDA m : m \in enabled_modules)

\* C13 as stated: at the return of run() the result list has one ModuleResult
\* per requested domain, in the order requested.
C13_OneResultPerRequestedDomain ==
    agent.pc = "exited" =>
       /\ Len(agent.results) = Len(agent.requested)
       /\ \A k \in 1..Len(agent.results) : agent.results[k].module = agent.requested[k]

\* C13 amended: the requested domains are processed one after another in the
\* order requested; a domain not in enabled_modules is passed over and gets no
\* result; while the i-th domain is in its pipeline, and at the return, the
\* result list holds exactly one ModuleResult with a terminal status for each
\* enabled domain requested before, in request order.
C13_OneResultPerEnabledDomainInOrder ==
    /\ agent.pc \in {"loop", "module", "exited"} =>
          LET before == EnabledAmong(agent.i - 1)
          IN  /\ Len(agent.results) = Len(before)
              /\ \A k \in 1..Len(before) :
                    /\ agent.results[k].module = before[k]
                    /\ agent.results[k].status \in TerminalStatuses
    /\ InPipeline =>
          /\ agent.i \in 1..Len(agent.requested)
          /\ agent.p.result.module = agent.requested[agent.i]
          /\ agent.requested[agent.i] \in enabled_modules
    /\ agent.pc = "exited" => agent.i = Len(agent.requested) + 1

C13_Witness ==
    /\ agent.pc = "exited"
    /\ agent.requested = <<"disk", "network">>
    /\ Len(agent.results) = 1
    /\ agent.results[1].module = "network"

\* C14: two run_detection calls on the same detector instance whose probes find
\* the same both times return equal DetectionResults.
C14_RepeatedDetectionEqual ==
    InPipeline =>
       LET c == agent.p.calls
       IN  \A i, j \in CallsOf("detect") :
              (~c[i].raised /\ ~c[j].raised /\ c[i].found = c[j].found)
                 => c[i].returned = c[j].returned

\* C15: the detection stored in the ModuleResult stays, through remediation and
\* verification, the DetectionResult the initial detection returned, and its
\* issue_count is the length of its issues.
C15_DetectionNeverMutated ==
    (InPipeline /\ agent.p.result.detection /= None) =>
       /\ agent.p.result.detection = agent.p.calls[1].returned
       /\ agent.p.result.detection.issue_count = Len(agent.p.result.detection.issues)

\* C16: the pipeline of a module name without a detector/remediator branch ends
\* in NOT_IMPLEMENTED with detection, remediation and verification null and
\* without any detector or remediator call; no other pipeline ends so.
C16_UnregisteredIsNotImplemented ==
    InPipeline =>
       LET r == agent.p.result
       IN  /\ r.module \notin Registered =>
                /\ agent.p.calls = <<>>
                /\ r.detection = None
                /\ r.remediation = None
                /\ r.verification = None
                /\ r.error = None
                /\ agent.p.pc \in {"start", "done"}
                /\ r.status = IF agent.p.pc = "done" THEN "NOT_IMPLEMENTED" ELSE "NOT_RUN"
           /\ r.status = "NOT_IMPLEMENTED" => r.module \notin Registered

C16_Witness ==
    /\ InPipeline
    /\ agent.p.pc = "done"
    /\ agent.p.result.module = "security"
    /\ agent.p.result.status = "NOT_IMPLEMENTED"
    /\ Len(agent.results) = 1

(* ---- claims about the remediators (SpecRemediate) ---- *)
\* C17: every run_remediation call returns; the result has success = true
\* exactly when actions_taken is non-empty, and action_count is the length of
\* actions_taken; with no action recorded it returns success = false.
C17_SuccessIffActionRecorded ==
    /\ remediator.pc = "constructed" => ENABLED NextRemediate
    /\ remediator.pc = "returned" =>
          LET r == remediator.result
          IN  /\ r.success <=> (r.actions_taken /= <<>>)
              /\ r.action_count = Len(r.actions_taken)
              /\ Len(r.actions_taken) <= Len(remediator.invoked)

C17_Witness ==
    /\ remediator.pc = "returned"
    /\ Len(remediator.issues) = 2
    /\ Len(remediator.invoked) = 2
    /\ remediator.result.actions_taken = <<>>
    /\ ~remediator.result.success

(* ---- claims about the responses of the dashboard (Spec) ---- *)
\* C18 as stated: an accepted scan request is answered with 202 and one made
\* while in_progress is true with 409.
C18_ScanAnswered202Or409 ==
    [][response'.op = "scan" =>
          response'.code = IF scan_in_progress THEN 409 ELSE 202]_vars

\* C18 amended: a scan request made while in_progress is true is answered with
\* 400 and starts no thread; any other is accepted, answered with 200 and the
\* module list of the request, and starts one thread with that list.
C18_ScanAnswered200Or400 ==
    [][response'.op = "scan" =>
          IF scan_in_progress
          THEN /\ response'.code = 400
               /\ scans' = scans
          ELSE /\ response'.code = 200
               /\ \E s \in ScanIds :
                     /\ scans[s].pc = "idle"
                     /\ scans'[s].pc = "launched"
                     /\ scans'[s].modules = response'.modules
                     /\ \A t \in ScanIds \ {s} : scans'[t] = scans[t]]_vars

C18_Witness ==
    /\ response = [op |-> "scan", code |-> 400]
    /\ scan_in_progress
    /\ \E s \in ScanIds : scans[s].pc = "running"
    /\ \E s \in ScanIds : scans[s].pc = "idle"

(* ---- claims about keyword dispatch (SpecRemediate) ---- *)
\* C19: network remediation runs the DNS-cache flush exactly when some issue
\* contains 'dns' or 'resolution' in any letter case.
C19_DnsFlushCaseInsensitive ==
    (remediator.pc = "returned" /\ remediator.module = "network") =>
       ((\E j \in 1..Len(remediator.invoked) :
            remediator.invoked[j].step = "flush_dns_cache")
        <=> (\E k \in 1..Len(remediator.issues) :
                \/ ContainsLower(remediator.issues[k], "dns")
                \/ ContainsLower(remediator.issues[k], "resolution")))

\* the keyword sets of a remediator with their steps; the generic restart of
\* the service remediator, the fallback for issues no keyword matches, is not
\* one of them
KeywordSets(module, platform) ==
    IF module = "service"
    THEN SubSeq(ServiceRouting(platform), 1, Len(ServiceRouting(platform)) - 1)
    ELSE PrinterRouting(platform)

\* C20: in service and printer remediation every keyword set an issue matches
\* has its corrective steps called for that issue.
C20_EveryMatchedSetFires ==
    (remediator.pc = "returned" /\ remediator.module \in {"service", "printer"}) =>
       LET sets == KeywordSets(remediator.module, remediator.platform)
       IN  \A k \in 1..Len(remediator.issues), r \in 1..Len(sets) :
              Matches(remediator.issues[k], sets[r].keywords) =>
                 \A n \in 1..Len(sets[r].steps) :
                    \E j \in 1..Len(remediator.invoked) :
                       remediator.invoked[j] = [issue |-> k, step |-> sets[r].steps[n]]

\* the queue-clear step and the restart step of a platform
ClearStepOf(platform) ==
    IF platform = "windows" THEN "clear_print_queue_windows" ELSE "clear_cups_queue"

RestartStepOf(platform) ==
    IF platform = "windows" THEN "restart_print_spooler_windows"
    ELSE "restart_cups_service"

\* C21: for the print-queue issue text the detector emits on the platform, the
\* printer remediator calls the queue-clear step and then the restart.
C21_QueueIssueClearsThenRestarts ==
    (remediator.pc = "returned" /\ remediator.module = "printer") =>
       \A k \in 1..Len(remediator.issues) :
          remediator.issues[k] = QueueTextOf(remediator.platform) =>
             \E j \in 1..(Len(remediator.invoked) - 1) :
                /\ remediator.invoked[j] =
                      [issue |-> k, step |-> ClearStepOf(remediator.platform)]
                /\ remediator.invoked[j + 1] =
                      [issue |-> k, step |-> RestartStepOf(remediator.platform)]

\* the steps of the run_remediation call, by name, in call order
InvokedSteps == [j \in 1..Len(remediator.invoked) |-> remediator.invoked[j].step]

\* C22: network remediation resets the adapter only when the issue list holds
\* more than 2 issues and one of them is a connectivity issue; a one-element
\* list, which is what a fix dispatch passes, never leads to a reset.
C22_AdapterResetNeedsThreeIssues ==
    (remediator.pc = "returned" /\ remediator.module = "network") =>
       /\ (\E j \in 1..Len(InvokedSteps) : InvokedSteps[j] = "reset_network_adapter") =>
             /\ Len(remediator.issues) > 2
             /\ \E k \in 1..Len(remediator.issues) :
                   \/ ContainsLower(remediator.issues[k], "internet")
                   \/ ContainsLower(remediator.issues[k], "connectivity")
       /\ \A text \in NetworkTexts :
             remediator.issues = FixIssues(text) =>
                \A j \in 1..Len(InvokedSteps) : InvokedSteps[j] /= "reset_network_adapter"

C22_Witness ==
    /\ remediator.pc = "returned"
    /\ remediator.module = "network"
    /\ Len(remediator.issues) = 3
    /\ remediator.issues[3] = {"internet", "connectivity"}
    /\ InvokedSteps[Len(InvokedSteps)] = "reset_network_adapter"

\* the place of a network step in the order DNS flush, DHCP renewal,
\* network-service restart, adapter reset
NetworkPriority(step) ==
    CASE step = "flush_dns_cache" -> 1
      [] step = "renew_dhcp_lease" -> 2
      [] step = "restart_network_service" -> 3
      [] step = "reset_network_adapter" -> 4

\* the issue list in the opposite order
Reverse(seq) == [k \in 1..Len(seq) |-> seq[Len(seq) + 1 - k]]

\* C23: the steps the network remediator calls are in the order DNS flush, DHCP
\* renewal, service restart, adapter reset, each at most once; they are the
\* same for the issues in another order; and every step the issues trigger is
\* called, whether or not the steps before it recorded an action.
C23_NetworkStepsInPriorityOrder ==
    (remediator.pc = "returned" /\ remediator.module = "network") =>
       LET issues == remediator.issues
           called(name) == \E j \in 1..Len(InvokedSteps) : InvokedSteps[j] = name
           dns == \E k \in 1..Len(issues) :
                     Contains(issues[k], "DNS") \/ Contains(issues[k], "resolution")
           connectivity == \E k \in 1..Len(issues) :
                              \/ ContainsLower(issues[k], "internet")
                              \/ ContainsLower(issues[k], "connectivity")
           gateway == \E k \in 1..Len(issues) : ContainsLower(issues[k], "gateway")
       IN  /\ \A i, j \in 1..Len(InvokedSteps) :
                 i < j => NetworkPriority(InvokedSteps[i]) < NetworkPriority(InvokedSteps[j])
           /\ remediator.invoked = NetworkSteps(Reverse(issues))
           /\ called("flush_dns_cache") <=> dns
           /\ called("renew_dhcp_lease") <=> (connectivity \/ gateway)
           /\ called("restart_network_service") <=> connectivity
           /\ called("reset_network_adapter") <=> (connectivity /\ Len(issues) > 2)

C23_Witness ==
    /\ remediator.pc = "returned"
    /\ remediator.module = "network"
    /\ InvokedSteps = <<"flush_dns_cache", "renew_dhcp_lease",
                        "restart_network_service", "reset_network_adapter">>
    /\ remediator.issues[1] = {"gateway"}
    /\ remediator.result.actions_taken = <<"restart_network_service">>

\* C24: whatever the issue list, the disk remediator calls the four cleanups in
\* the order temp files, browser cache, system logs, recycle bin, the later
\* ones also when an earlier one recorded nothing, and returns
\* action_count >= 1.
C24_DiskRunsAllFourCleanups ==
    (remediator.pc = "returned" /\ remediator.module = "disk") =>
       /\ InvokedSteps = <<"clean_temp_files", "clean_browser_cache",
                           "clean_system_logs", "empty_recycle_bin">>
       /\ remediator.result.action_count >= 1
       /\ remediator.result.success

C24_Witness ==
    /\ remediator.pc = "returned"
    /\ remediator.module = "disk"
    /\ remediator.issues = <<{"WARNING"}>>
    /\ remediator.result.actions_taken = <<"clean_temp_files", "empty_recycle_bin">>

(* ---- claims about the snapshot after scans and fixes (Spec) ---- *)
\* C25: the status of every ModuleResult reachable from current_scan_results
\* is NOT_RUN or one of the six terminal values.
C25_SnapshotStatusInStateMachine ==
    \A k \in 1..Len(CurrentResults) :
       CurrentResults[k].status \in TerminalStatuses \cup {"NOT_RUN"}

(* ---- further claims about one pipeline (SpecAgent) ---- *)
\* C26: in the disk pipeline, when the probes of the verification call find
\* nothing, the verification has has_issues false and no issues and the
\* pipeline ends in REMEDIATION_SUCCESS.
C26_DiskCleanVerificationSucceeds ==
    (/\ InPipeline
     /\ agent.p.result.module = "disk"
     /\ agent.p.pc = "done"
     /\ Len(agent.p.calls) = 4
     /\ ~agent.p.calls[4].raised
     /\ agent.p.calls[4].found = <<>>) =>
       /\ ~agent.p.result.verification.has_issues
       /\ agent.p.result.verification.issues = <<>>
       /\ agent.p.result.status = "REMEDIATION_SUCCESS"

(* ---- claims about concurrent fixes (SpecFix) ---- *)
\* two fix threads that have both made their writes to the same module_result
BothFixesCompleted ==
    /\ \A f \in FixIds : fixes[f].pc = "finished"
    /\ \A f, g \in FixIds : fixes[f].scan = fixes[g].scan /\ fixes[f].k = fixes[g].k

\* C27: after two concurrent fix tasks for the same module have completed, the
\* remediation and the status of the result they wrote come from the same
\* task, and the status is REMEDIATION_SUCCESS exactly when remediation.success.
C27_ConcurrentFixesLeaveConsistentResult ==
    BothFixesCompleted =>
       \A f \in FixIds :
          LET r == reports[fixes[f].scan][fixes[f].k]
          IN  /\ \E g \in FixIds : r.remediation = fixes[g].result
                                   /\ r.status = fixes[g].status
              /\ (r.status = "REMEDIATION_SUCCESS") <=> r.remediation.success

(* ---- further claims about the scan/fix coordinator (Spec) ---- *)
\* the statuses a pipeline that never remediates can end in
DetectOnlyStatuses == {"NO_ISSUES", "TEST_ONLY", "ERROR", "NOT_IMPLEMENTED"}

\* scan thread s binds its results in this step
Publishes(s) == scans[s].pc = "running" /\ scans'[s].pc = "published"

\* C28: every result a scan publishes has no remediation, no verification and
\* a status among NO_ISSUES, TEST_ONLY, ERROR, NOT_IMPLEMENTED, and a result
\* gets a remediation only by the write of a fix thread.
C28_ScanNeverRemediates ==
    [][/\ \A s \in ScanIds :
             Publishes(s) =>
                \A k \in 1..Len(reports'[s]) :
                   /\ reports'[s][k].remediation = None
                   /\ reports'[s][k].verification = None
                   /\ reports'[s][k].status \in DetectOnlyStatuses
       /\ \A s \in ScanIds :
             \A k \in (1..Len(reports[s])) \cap (1..Len(reports'[s])) :
                reports'[s][k].remediation /= reports[s][k].remediation =>
                   \E f \in FixIds : /\ fixes[f].pc = "write_remediation"
                                     /\ fixes'[f].pc = "write_status"
                                     /\ fixes[f].called /= <<>> \/ fixes[f].module \notin Registered]_vars

\* a scan has published a result with issues left untouched, and a fix thread
\* has called a remediator
C28_Witness ==
    /\ \E s \in ScanIds :
          /\ scans[s].pc = "published"
          /\ \E k \in 1..Len(reports[s]) :
                /\ reports[s][k].status = "TEST_ONLY"
                /\ reports[s][k].detection.has_issues
                /\ reports[s][k].remediation = None
    /\ \E f \in FixIds : fixes[f].called /= <<>>

(* ---- liveness of the scan flag (SpecLive) ---- *)
\* C29: every accepted scan eventually returns with scan_in_progress false and
\* current_scan_results bound, which stays bound from then on, and
\* scan_in_progress is false again and again.
C29_ScanEventuallyReleasesFlag ==
    /\ \A s \in ScanIds :
          (scans[s].pc = "launched") ~>
             (/\ scans[s].pc = "done"
              /\ ~scan_in_progress
              /\ current_scan_results /= NoResults)
    /\ [](\A s \in ScanIds : scans[s].pc = "done" => current_scan_results /= NoResults)
    /\ []<>(~scan_in_progress)

\* a scan whose try block raised has returned, leaving an error record and the
\* flag cleared
C29_Witness ==
    \E s \in ScanIds :
       /\ scans[s].pc = "done"
       /\ current_scan_results = [kind |-> "error", scan |-> s]
       /\ ~scan_in_progress

(* ---- the fields of a result against its status (SpecAgent) ---- *)
\* the fields of result dict r are populated as its status says
FieldsMatchStatus(r) ==
    /\ r.verification /= None => r.remediation /= None
    /\ r.remediation /= None => r.detection /= None
    /\ r.status \in {"NO_ISSUES", "TEST_ONLY"} =>
          r.detection /= None /\ r.remediation = None /\ r.verification = None
    /\ r.status \in {"REMEDIATION_SUCCESS", "REMEDIATION_PARTIAL"} =>
          r.detection /= None /\ r.remediation /= None /\ r.verification /= None
    /\ r.status = "NOT_IMPLEMENTED" =>
          r.detection = None /\ r.remediation = None /\ r.verification = None
    /\ r.error /= None => r.status = "ERROR"

\* C30: in every state of a pipeline and in every result run() has collected,
\* the detection, remediation, verification and error fields are populated
\* consistently with the status.
C30_FieldsConsistentWithStatus ==
    /\ InPipeline => FieldsMatchStatus(agent.p.result)
    /\ \A k \in 1..Len(agent.results) : FieldsMatchStatus(agent.results[k])

\* a collected result went through remediation and verification, and the
\* pipeline in flight ended in ERROR when its verification raised
C30_Witness ==
    /\ \E k \in 1..Len(agent.results) :
          /\ agent.results[k].status \in {"REMEDIATION_SUCCESS", "REMEDIATION_PARTIAL"}
          /\ agent.results[k].verification /= None
    /\ InPipeline
    /\ agent.p.pc = "done"
    /\ agent.p.result.status = "ERROR"
    /\ agent.p.result.error /= None
    /\ agent.p.result.remediation /= None
    /\ agent.p.result.verification = None

====
